---- MODULE Spec2Model ----
(***************************************************************************)
(* infinitychat: the node's channel membership (node/pubsub.go), its        *)
(* message pumps, the rejoin/announce cycles and node shutdown             *)
(* (node/node.go), as a state machine.                                      *)
(***************************************************************************)
EXTENDS Integers, Sequences, FiniteSets, Bags, TLC

(* ------------------------------ bounds -------------------------------- *)

\* handles and subscriptions ever created
MaxSubs == 2
\* payloads ever handed to the overlay or delivered by it
MaxMsgs == 2
\* messages the consumer takes from Messages()
MaxOut == 2
\* goroutines started on demand or by a ticker that have not returned
MaxTasks == 1
\* rejoin cycles inside their connect loop at the same time
MaxLoops == 1
\* length of a discovery stream whose entries are drawn freely
MaxDiscover == 2
\* remote peers of the network
NumPeers == 12
\* connected peers Status may count
MaxConns == 4
\* bootstrap peers a configuration may list
MaxBootstrap == 3
\* largest low mark of a configuration
MaxLow == 3
\* length of a descriptor typed by the user
MaxLen == 3
\* functions registered with one errhelper.H
MaxFuncs == 6

(* ------------------------- program constants -------------------------- *)

\* "if protectedCount >= 10"
ProtectCap == 10
\* "const lowConnsMark = 50"
lowConnsMark == 50
\* n.ID(), the local peer
Self == 0

ChanPrefix ==
  <<"/","i","n","f","i","n","i","t","y","c","h","a","t","/","v","0",".","1",
    "/","c","h","a","n","n","e","l","/">>
DMPrefix ==
  <<"/","i","n","f","i","n","i","t","y","/","v","0",".","1","/","d","m","/">>

\* strings.HasPrefix
HasPrefix(s, p) == Len(s) >= Len(p) /\ SubSeq(s, 1, Len(p)) = p

\* The descriptors the operations are called with, by name, and the string
\* each name stands for.
Descriptors == {"chanA", "chanB", "dmA", "ip4"}
Str(d) ==
  CASE d = "chanA" -> ChanPrefix \o <<"a">>
    [] d = "chanB" -> ChanPrefix \o <<"b">>
    [] d = "dmA" -> DMPrefix \o <<"a">>
    [] d = "ip4" -> <<"/","i","p","4">>
\* the descriptors JoinChannel is called with
JoinDescriptors == {"chanA", "chanB"}

RemotePeers == 1..NumPeers
SmallPeers == {Self, 1, 2}

(* ------------------------- discovery streams -------------------------- *)

\* One entry of a FindPeers stream with the result Host.Connect has for it.
Entry(S) == [id : S, ok : BOOLEAN]
SeqsUpTo(S, n) == UNION {[1..k -> S] : k \in 0..n}
Run(a, b, ok) == [i \in 1..(b - a + 1) |-> [id |-> a + i - 1, ok |-> ok]]

SmallEntries ==
  {[id |-> Self, ok |-> TRUE], [id |-> 1, ok |-> TRUE], [id |-> 2, ok |-> FALSE]}
SmallStreams == SeqsUpTo(SmallEntries, MaxDiscover)
LargeStreams ==
  { Run(1, NumPeers - 1, TRUE),
    Run(2, NumPeers, TRUE),
    <<[id |-> Self, ok |-> TRUE]>> \o Run(1, NumPeers - 1, TRUE) }
Streams == SmallStreams \cup LargeStreams

\* what topic.ListPeers() may return
MeshChoices == (SUBSET (SmallPeers \ {Self})) \cup {RemotePeers}

(* ------------------------------- state -------------------------------- *)

VARIABLES
  topics,     \* n.topics: descriptor -> topic handle
  subs,       \* n.subs: descriptor -> subscription
  handles,    \* the topic handles the overlay gave out: [d, open]
  subscr,     \* the subscriptions the overlay gave out: [topic, cancelled, ch]
  pumps,      \* pullMessages goroutines, one per subscription: [pc, msg,
              \* skipped: the payloads it discarded as its own]
  out,        \* what the consumer has received from Messages()
  pubs,       \* Post's goroutines that have not published yet
  msgSeq,     \* payloads used so far
  protected,  \* connection manager: tag (descriptor) -> peers holding it
  tasks,      \* bag of goroutines in AnnounceChannel/RejoinChannel/...All
  rejoined,   \* per descriptor: rejoin cycles begun (0, 1, 2 = more)
  node,       \* nodeContext, the messages channel, Close in progress, panic
  lastOp      \* the step just taken: its input, what it called and returned

vars == <<topics, subs, handles, subscr, pumps, out, pubs, msgSeq,
          protected, tasks, rejoined, node, lastOp>>

NoDescr == ""
EmptyMap == [x \in {} |-> 0]
NoMsg == [Sender |-> Self, Channel |-> NoDescr, Text |-> 0]

\* A goroutine of the announce/rejoin family before it has done anything.
Idle == [kind |-> "idle", pc |-> "", d |-> NoDescr, list |-> <<>>, pos |-> 0,
         count |-> 0, added |-> {}, todo |-> {}, all |-> FALSE,
         late |-> FALSE, snap |-> {}, called |-> <<>>, errs |-> {},
         dialed |-> <<>>, expired |-> FALSE]

\* held: the overlay calls made with pubsubLock held; late: the step is of a
\* RejoinAll/AnnounceAll that began after n.ctxCancel(); val: a value returned
\* (of RejoinChannel: the peers it called Host.Connect for, in order);
\* snap, called, errs: of a step of RejoinAll/AnnounceAll, its snapshot, the
\* descriptors it has called Rejoin/Announce for, in order, and those of them
\* for which the call failed; expired: the step is of a RejoinChannel whose
\* minute is over. Of a step of errhelper.H: list is h.deferList, called the
\* functions registered and not run since, val the functions the call ran,
\* in the order it ran them, failed the error passed to Fail.
Op(op, d, ret) ==
  [op |-> op, d |-> d, ret |-> ret, spawned |-> {}, calls |-> {},
   failed |-> {}, peers |-> {}, list |-> <<>>, held |-> {}, late |-> FALSE,
   val |-> <<>>, snap |-> {}, called |-> <<>>, errs |-> {}, expired |-> FALSE]

\* NewNode, but for n.Cfg.
Fresh ==
  /\ topics = EmptyMap
  /\ subs = EmptyMap
  /\ handles = <<>>
  /\ subscr = <<>>
  /\ pumps = <<>>
  /\ out = <<>>
  /\ pubs = {}
  /\ msgSeq = 0
  /\ protected = [d \in Descriptors |-> {}]
  /\ tasks = EmptyBag
  /\ rejoined = [d \in Descriptors |-> 0]

\* The node of a configuration with `bootstrap` bootstrap peers and the low
\* mark connsLow.
NewNode(bootstrap, connsLow) ==
  [ctx |-> "live", ch |-> "open", closing |-> FALSE, crashed |-> FALSE,
   bootstrap |-> bootstrap, connsLow |-> connsLow]

Init ==
  /\ Fresh
  /\ node = NewNode(0, lowConnsMark)
  /\ lastOp = Op("NewNode", NoDescr, "OK")

(* ------------------------------ helpers ------------------------------- *)

\* IsJoined
IsJoined(d) == d \in DOMAIN subs

MapPut(m, k, v) == [x \in (DOMAIN m) \cup {k} |-> IF x = k THEN v ELSE m[x]]
\* A delete that leaves the map as it is.
MapDelNothing(m, k) == m

MapDel(m, k) == [x \in (DOMAIN m) \ {k} |-> m[x]]

Spawn(B, t) == B (+) SetToBag({t})
Finish(B, t) == B (-) SetToBag({t})

\* "go n.AnnounceChannel(descr)", "go n.RejoinChannel(descr)"
SpawnAnnounce(d) == [Idle EXCEPT !.kind = "announce", !.pc = "call", !.d = d]
SpawnRejoin(d) == [Idle EXCEPT !.kind = "rejoin", !.pc = "find", !.d = d]

(* ------------------------------ pubsubLock ---------------------------- *)

\* A pump that holds the lock while it is blocked in its send.
PumpHoldsLockInSend(p) == p.pc = "send"

\* Whether pump p holds n.pubsubLock: pullMessages locks nothing, at none
\* of its steps.
PumpHoldsLock(p) == FALSE

\* "n.pubsubLock.Lock()" returns: no goroutine holds the lock. JoinChannel,
\* LeaveChannel, Post and IsJoined hold it from their first statement to
\* their return ("defer n.pubsubLock.Unlock()"), and wait for no other
\* goroutine meanwhile, so each of them is one step.
LockFree == \A s \in 1..Len(pumps) : ~PumpHoldsLock(pumps[s])

(* ----------------------------- JoinChannel ---------------------------- *)

\* JoinPath without the "if err != nil" after PubsubProto.Join.
JoinPathIgnoresError(needTopic, joinOk, hasSub, subOk) ==
  IF hasSub THEN "AlreadyJoined"
  ELSE IF ~subOk THEN "SubscribeFailed"
  ELSE "Joined"

\* The path JoinChannel takes: needTopic is "!ok" of the n.topics lookup,
\* hasSub the "ok" of the n.subs lookup.
JoinPath(needTopic, joinOk, hasSub, subOk) ==
  IF needTopic /\ ~joinOk THEN "JoinFailed"
  ELSE IF hasSub THEN "AlreadyJoined"
  ELSE IF ~subOk THEN "SubscribeFailed"
  ELSE "Joined"

\* JoinChannel(descr). joinOk, subOk: whether PubsubProto.Join and
\* topic.Subscribe succeed.
JoinChannel(d, joinOk, subOk) ==
  /\ ~node.crashed
  /\ LockFree
  /\ LET needTopic == d \notin DOMAIN topics
         path == JoinPath(needTopic, joinOk, d \in DOMAIN subs, subOk)
         hs == IF needTopic THEN Append(handles, [d |-> d, open |-> TRUE])
               ELSE handles
         h == IF needTopic THEN Len(hs) ELSE topics[d]
         joinCalls == IF needTopic THEN {"JoinTopic"} ELSE {}
         joinFails == IF needTopic /\ ~joinOk THEN {"JoinTopic"} ELSE {}
     IN
     CASE path = "JoinFailed" ->
            /\ lastOp' = [Op("JoinChannel", d, "JoinFailed")
                            EXCEPT !.calls = joinCalls, !.held = joinCalls,
                                   !.failed = joinFails]
            /\ UNCHANGED <<topics, subs, handles, subscr, pumps, out, pubs,
                           msgSeq, protected, tasks, rejoined, node>>
       [] path = "AlreadyJoined" ->
            /\ needTopic => Len(handles) < MaxSubs
            /\ handles' = hs
            /\ lastOp' = [Op("JoinChannel", d, "OK")
                            EXCEPT !.calls = joinCalls, !.held = joinCalls,
                                   !.failed = joinFails]
            /\ UNCHANGED <<topics, subs, subscr, pumps, out, pubs, msgSeq,
                           protected, tasks, rejoined, node>>
       [] path = "SubscribeFailed" ->
            /\ needTopic => Len(handles) < MaxSubs
            /\ handles' = hs
            /\ lastOp' = [Op("JoinChannel", d, "SubscribeFailed")
                            EXCEPT !.calls = joinCalls \cup {"Subscribe"},
                                   !.held = joinCalls \cup {"Subscribe"},
                                   !.failed = joinFails \cup {"Subscribe"}]
            /\ UNCHANGED <<topics, subs, subscr, pumps, out, pubs, msgSeq,
                           protected, tasks, rejoined, node>>
       [] OTHER ->
            /\ needTopic => Len(handles) < MaxSubs
            /\ Len(subscr) < MaxSubs
            /\ handles' = hs
            /\ subscr' = Append(subscr, [topic |-> d, cancelled |-> FALSE, ch |-> <<>>])
            /\ topics' = MapPut(topics, d, h)
            /\ subs' = MapPut(subs, d, Len(subscr) + 1)
            /\ pumps' = Append(pumps, [pc |-> "next", msg |-> NoMsg, skipped |-> {}])
            /\ tasks' = Spawn(Spawn(tasks, SpawnAnnounce(d)), SpawnRejoin(d))
            /\ lastOp' = [Op("JoinChannel", d, "OK")
                            EXCEPT !.calls = joinCalls \cup {"Subscribe"},
                                   !.held = joinCalls \cup {"Subscribe"},
                                   !.failed = joinFails,
                                   !.spawned = {"pump", "announce", "rejoin"}]
            /\ UNCHANGED <<out, pubs, msgSeq, protected, rejoined, node>>

(* ----------------------------- LeaveChannel --------------------------- *)

\* Unprotect that leaves the tags.
UnprotectNothing(tagged, listed) == tagged

\* "for _, p := range topic.ListPeers() { ConnManager().Unprotect(p, descr) }"
Unprotect(tagged, listed) == tagged \ listed

\* Untag that takes the listed peers' tags of every reason.
UntagEveryReason(tags, d, listed) ==
  [e \in DOMAIN tags |-> Unprotect(tags[e], listed)]

\* The protection tags after LeaveChannel's loop: Unprotect is called with
\* the tag descr.
Untag(tags, d, listed) == [tags EXCEPT ![d] = Unprotect(@, listed)]

\* LeavePath without the lookup in n.topics.
LeavePathNoTopicCheck(hasTopic, hasSub) ==
  IF ~hasSub THEN "NoSub" ELSE "Leave"

\* The path LeaveChannel takes, from the two map lookups.
LeavePath(hasTopic, hasSub) ==
  IF ~hasTopic THEN "NoTopic"
  ELSE IF ~hasSub THEN "NoSub"
  ELSE "Leave"

\* LeaveChannel(descr). listed: what topic.ListPeers() returns; closeOk:
\* whether topic.Close() succeeds.
LeaveChannel(d, listed, closeOk) ==
  /\ ~node.crashed
  /\ LockFree
  /\ LET path == LeavePath(d \in DOMAIN topics, d \in DOMAIN subs)
         unprotectCalls == IF listed = {} THEN {} ELSE {"Unprotect"}
     IN
     CASE path = "NoTopic" ->
            /\ lastOp' = Op("LeaveChannel", d, "NotJoined")
            /\ UNCHANGED <<topics, subs, handles, subscr, pumps, out, pubs,
                           msgSeq, protected, tasks, rejoined, node>>
       [] path = "NoSub" ->
            /\ protected' = Untag(protected, d, listed)
            /\ lastOp' = [Op("LeaveChannel", d, "NotJoined")
                            EXCEPT !.calls = unprotectCalls, !.held = unprotectCalls,
                                   !.peers = listed]
            /\ UNCHANGED <<topics, subs, handles, subscr, pumps, out, pubs,
                           msgSeq, tasks, rejoined, node>>
       [] OTHER ->
            /\ protected' = Untag(protected, d, listed)
            /\ subs' = MapDel(subs, d)
            /\ subscr' = [subscr EXCEPT ![subs[d]].cancelled = TRUE]
            /\ topics' = MapDel(topics, d)
            /\ handles' = [handles EXCEPT ![topics[d]].open = ~closeOk]
            /\ lastOp' = [Op("LeaveChannel", d, IF closeOk THEN "OK" ELSE "LeaveFailed")
                            EXCEPT !.calls = unprotectCalls \cup {"Cancel", "Close"},
                                   !.held = unprotectCalls \cup {"Cancel", "Close"},
                                   !.failed = IF closeOk THEN {} ELSE {"Close"},
                                   !.peers = listed]
            /\ UNCHANGED <<pumps, out, pubs, msgSeq, tasks, rejoined, node>>

(* --------------------------------- Post ------------------------------- *)

\* The subscriptions of topic d the overlay still feeds.
LiveSubs(d) ==
  {s \in 1..Len(subscr) : subscr[s].topic = d /\ ~subscr[s].cancelled}

\* PostCase without the direct-message case.
PostCaseNoDM(d) ==
  IF HasPrefix(Str(d), ChanPrefix) THEN "channel" ELSE "unknown"

\* The switch of Post over the descriptor's prefix.
PostCase(d) ==
  IF HasPrefix(Str(d), ChanPrefix) THEN "channel"
  ELSE IF HasPrefix(Str(d), DMPrefix) THEN "dm"
  ELSE "unknown"

\* A Post that calls topic.Publish itself, before it returns.
PostInline(d) ==
  /\ ~node.crashed
  /\ LockFree
  /\ IF PostCase(d) = "channel" /\ d \in DOMAIN topics THEN
       /\ msgSeq < MaxMsgs
       /\ msgSeq' = msgSeq + 1
       /\ subscr' = [s \in 1..Len(subscr) |->
                       IF s \in LiveSubs(d)
                       THEN [subscr[s] EXCEPT !.ch =
                               Append(@, [from |-> Self, data |-> msgSeq + 1])]
                       ELSE subscr[s]]
       /\ lastOp' = [Op("Post", d, "OK") EXCEPT !.calls = {"Publish"},
                                               !.held = {"Publish"}]
       /\ UNCHANGED <<topics, subs, handles, pumps, out, pubs, protected,
                      tasks, rejoined, node>>
     ELSE
       /\ lastOp' = Op("Post", d,
                       CASE PostCase(d) = "channel" -> "NotJoined"
                         [] PostCase(d) = "dm" -> "NotImplemented"
                         [] OTHER -> "InvalidDescriptor")
       /\ UNCHANGED <<topics, subs, handles, subscr, pumps, out, pubs, msgSeq,
                      protected, tasks, rejoined, node>>

\* Post(descriptor, msg); the payload is the next unused one.
Post(d) ==
  /\ ~node.crashed
  /\ LockFree
  /\ IF PostCase(d) = "channel" /\ d \in DOMAIN topics THEN
       /\ msgSeq < MaxMsgs
       /\ msgSeq' = msgSeq + 1
       /\ pubs' = pubs \cup {[h |-> topics[d], d |-> d, text |-> msgSeq + 1]}
       /\ lastOp' = [Op("Post", d, "OK") EXCEPT !.spawned = {"publish"}]
       /\ UNCHANGED <<topics, subs, handles, subscr, pumps, out, protected,
                      tasks, rejoined, node>>
     ELSE
       /\ lastOp' = Op("Post", d,
                       CASE PostCase(d) = "channel" -> "NotJoined"
                         [] PostCase(d) = "dm" -> "NotImplemented"
                         [] OTHER -> "InvalidDescriptor")
       /\ UNCHANGED <<topics, subs, handles, subscr, pumps, out, pubs, msgSeq,
                      protected, tasks, rejoined, node>>


\* The goroutine Post started: topic.Publish. ok: whether it succeeds; the
\* overlay hands a publication to the local subscriptions of the topic too.
Publish(p, ok) ==
  /\ ~node.crashed
  /\ p \in pubs
  /\ pubs' = pubs \ {p}
  /\ subscr' = IF ok
               THEN [s \in 1..Len(subscr) |->
                       IF s \in LiveSubs(p.d)
                       THEN [subscr[s] EXCEPT !.ch =
                               Append(@, [from |-> Self, data |-> p.text])]
                       ELSE subscr[s]]
               ELSE subscr
  /\ lastOp' = [Op("Publish", p.d, IF ok THEN "OK" ELSE "PublishFailed")
                  EXCEPT !.calls = IF ok THEN {"Publish"}
                                   ELSE {"Publish", "Println"}]
  /\ UNCHANGED <<topics, subs, handles, pumps, out, msgSeq, protected, tasks,
                 rejoined, node>>

\* The overlay delivers a message of peer `from` to subscription s.
Deliver(s, from) ==
  /\ ~node.crashed
  /\ s \in 1..Len(subscr)
  /\ ~subscr[s].cancelled
  /\ msgSeq < MaxMsgs
  /\ msgSeq' = msgSeq + 1
  /\ subscr' = [subscr EXCEPT ![s].ch = Append(@, [from |-> from, data |-> msgSeq + 1])]
  /\ lastOp' = Op("Deliver", subscr[s].topic, "OK")
  /\ UNCHANGED <<topics, subs, handles, pumps, out, pubs, protected, tasks,
                 rejoined, node>>

(* ----------------------------- pullMessages --------------------------- *)

\* A pump that takes no message for its own.
IsSelfEchoNever(m) == FALSE

\* A pump that takes every message for its own.
IsSelfEchoAlways(m) == TRUE

\* "if string(msg.GetFrom()) == string(n.ID())"
IsSelfEcho(m) == m.from = Self

\* The outcomes sub.Next(n.nodeContext) can have for subscription s.
NextOutcomes(s) ==
  (IF subscr[s].ch # <<>> THEN {"msg"} ELSE {})
    \cup (IF subscr[s].cancelled THEN {"cancelled"} ELSE {})
    \cup (IF node.ctx = "cancelled" THEN {"ctx"} ELSE {})
    \cup {"error"}

\* A loop that returns on every error of sub.Next.
OnReadErrorReturn(outcome) == "return"

\* What the loop does with an error of sub.Next: it returns on the error of a
\* cancelled subscription and on context.Canceled, and goes on otherwise.
OnReadError(outcome) ==
  IF outcome \in {"cancelled", "ctx"} THEN "return" ELSE "continue"

\* One turn of pullMessages's loop up to the send: sub.Next and what follows.
PumpNext(s, outcome) ==
  /\ ~node.crashed
  /\ s \in 1..Len(pumps)
  /\ pumps[s].pc = "next"
  /\ outcome \in NextOutcomes(s)
  /\ LET m == Head(subscr[s].ch) IN
     CASE outcome = "msg" ->
            /\ subscr' = [subscr EXCEPT ![s].ch = Tail(@)]
            /\ IF IsSelfEcho(m)
               THEN /\ pumps' = [pumps EXCEPT ![s].skipped = @ \cup {m.data}]
                    /\ lastOp' = Op("PumpNext", subscr[s].topic, "SelfEcho")
               ELSE /\ pumps' = [pumps EXCEPT ![s].pc = "send",
                         ![s].msg = [Sender |-> m.from, Channel |-> subscr[s].topic,
                                     Text |-> m.data]]
                    /\ lastOp' = Op("PumpNext", subscr[s].topic, "Message")
       [] outcome # "msg" /\ OnReadError(outcome) = "return" ->
            /\ subscr' = subscr
            /\ pumps' = [pumps EXCEPT ![s].pc = "done"]
            /\ lastOp' = Op("PumpNext", subscr[s].topic, "Return")
       [] OTHER ->
            /\ subscr' = subscr
            /\ pumps' = pumps
            /\ lastOp' = [Op("PumpNext", subscr[s].topic, "ReadError")
                            EXCEPT !.calls = {"Println"}]
  /\ UNCHANGED <<topics, subs, handles, out, pubs, msgSeq, protected, tasks,
                 rejoined, node>>

\* A send that hands the message over and keeps it for another send.
EmitKeepsMessage(s) ==
  /\ ~node.crashed
  /\ s \in 1..Len(pumps)
  /\ pumps[s].pc = "send"
  /\ node.ch = "open"
  /\ Len(out) < MaxOut
  /\ out' = Append(out, pumps[s].msg)
  /\ lastOp' = Op("Emit", pumps[s].msg.Channel, "OK")
  /\ UNCHANGED <<topics, subs, handles, subscr, pumps, pubs, msgSeq, protected,
                 tasks, rejoined, node>>

\* "n.messages <- Message{...}" meets the consumer's receive.
Emit(s) ==
  /\ ~node.crashed
  /\ s \in 1..Len(pumps)
  /\ pumps[s].pc = "send"
  /\ node.ch = "open"
  /\ Len(out) < MaxOut
  /\ out' = Append(out, pumps[s].msg)
  /\ pumps' = [pumps EXCEPT ![s].pc = "next", ![s].msg = NoMsg]
  /\ lastOp' = Op("Emit", pumps[s].msg.Channel, "OK")
  /\ UNCHANGED <<topics, subs, handles, subscr, pubs, msgSeq, protected, tasks,
                 rejoined, node>>

\* "n.messages <- Message{...}" on the closed channel: the runtime panics.
SendOnClosed(s) ==
  /\ ~node.crashed
  /\ s \in 1..Len(pumps)
  /\ pumps[s].pc = "send"
  /\ node.ch = "closed"
  /\ node' = [node EXCEPT !.crashed = TRUE]
  /\ lastOp' = Op("Emit", pumps[s].msg.Channel, "Panic")
  /\ UNCHANGED <<topics, subs, handles, subscr, pumps, out, pubs, msgSeq,
                 protected, tasks, rejoined>>

(* --------------------------------- Close ------------------------------ *)

\* Close up to its return: n.ctxCancel(), kdht.Close(), Host.Close().
CloseBegin ==
  /\ ~node.crashed
  /\ ~node.closing
  /\ node' = [node EXCEPT !.ctx = "cancelled", !.closing = TRUE]
  /\ lastOp' = Op("Close", NoDescr, "Cancelled")
  /\ UNCHANGED <<topics, subs, handles, subscr, pumps, out, pubs, msgSeq,
                 protected, tasks, rejoined>>

\* Close's deferred close(n.messages).
CloseEnd ==
  /\ ~node.crashed
  /\ node.closing
  /\ node' = IF node.ch = "closed"
             THEN [node EXCEPT !.crashed = TRUE, !.closing = FALSE]
             ELSE [node EXCEPT !.ch = "closed", !.closing = FALSE]
  /\ lastOp' = Op("Close", NoDescr, IF node.ch = "closed" THEN "Panic" ELSE "OK")
  /\ UNCHANGED <<topics, subs, handles, subscr, pumps, out, pubs, msgSeq,
                 protected, tasks, rejoined>>

(* ------------------------- announce and rejoin ------------------------ *)

Running == BagToSet(tasks)
InLoop == {t \in Running : t.pc = "loop"}

\* The descriptors of the cycle for which the call has failed, after the
\* call for t.d returned.
ErrsAfter(t, ok) == IF t.all /\ ~ok THEN t.errs \cup {t.d} ELSE t.errs

\* A cycle that ends at the first call that fails.
AfterCallStopsOnError(B, t, ok) ==
  IF t.all /\ ok
  THEN Spawn(Finish(B, t), [Idle EXCEPT !.kind = t.kind, !.all = TRUE,
                                         !.pc = "pick", !.todo = t.todo,
                                         !.late = t.late, !.snap = t.snap,
                                         !.called = t.called,
                                         !.errs = ErrsAfter(t, ok)])
  ELSE Finish(B, t)

\* What a goroutine does after AnnounceChannel/RejoinChannel returned: the
\* next descriptor of the snapshot (RejoinAll, AnnounceAll), or it ends.
AfterCall(B, t, ok) ==
  IF t.all
  THEN Spawn(Finish(B, t), [Idle EXCEPT !.kind = t.kind, !.all = TRUE,
                                         !.pc = "pick", !.todo = t.todo,
                                         !.late = t.late, !.snap = t.snap,
                                         !.called = t.called,
                                         !.errs = ErrsAfter(t, ok)])
  ELSE Finish(B, t)

\* AnnounceChannel(desc) of a goroutine: Discover.Advertise.
AnnounceChannel(t, ok) ==
  /\ ~node.crashed
  /\ t.kind = "announce"
  /\ t.pc = "call"
  /\ tasks' = AfterCall(tasks, t, ok)
  /\ lastOp' = [Op("AnnounceChannel", t.d, IF ok THEN "OK" ELSE "AnnounceFailed")
                  EXCEPT !.calls = {"Advertise"},
                         !.failed = IF ok THEN {} ELSE {"Advertise"},
                         !.late = t.late, !.snap = t.snap,
                         !.called = t.called, !.errs = ErrsAfter(t, ok)]
  /\ UNCHANGED <<topics, subs, handles, subscr, pumps, out, pubs, msgSeq,
                 protected, rejoined, node>>

\* RejoinAll/AnnounceAll up to the loop: the snapshot of n.topics' keys.
StartAll(kind) ==
  /\ ~node.crashed
  /\ tasks' = Spawn(tasks, [Idle EXCEPT !.kind = kind, !.all = TRUE,
                                        !.pc = "pick", !.todo = DOMAIN topics,
                                        !.late = node.ctx = "cancelled",
                                        !.snap = DOMAIN topics])
  /\ lastOp' = [Op(IF kind = "rejoin" THEN "RejoinAll" ELSE "AnnounceAll",
                   NoDescr, "Snapshot") EXCEPT !.late = node.ctx = "cancelled",
                                               !.snap = DOMAIN topics]
  /\ UNCHANGED <<topics, subs, handles, subscr, pumps, out, pubs, msgSeq,
                 protected, rejoined, node>>

\* RejoinAll/AnnounceAll called while no other goroutine of the model runs.
BeginAll(kind) == BagCardinality(tasks) < MaxTasks /\ StartAll(kind)

\* The ticker goroutines a running node has. rejoinGoroutine and
\* announceGoroutine have no caller in the sources at hand; the node starts
\* one of each, as the specification says.
TickersStarted == {"rejoin", "announce"}

\* "for range t.C { n.RejoinAll() }" (n.AnnounceAll()): a tick, taken when
\* the call of the tick before has returned.
Tick(kind) ==
  /\ kind \in TickersStarted
  /\ \A u \in Running : ~(u.all /\ u.kind = kind)
  /\ StartAll(kind)

\* A RejoinAll/AnnounceAll that does not return after its last descriptor.
PickNextNeverReturns(t, d) ==
  /\ ~node.crashed
  /\ t.pc = "pick"
  /\ t.todo # {}
  /\ d \in t.todo
  /\ tasks' = Spawn(Finish(tasks, t),
                    [t EXCEPT !.d = d, !.todo = @ \ {d},
                              !.called = Append(@, d),
                              !.pc = IF t.kind = "rejoin" THEN "find" ELSE "call"])
  /\ lastOp' = [Op(IF t.kind = "rejoin" THEN "RejoinAll" ELSE "AnnounceAll",
                   d, "Next") EXCEPT !.late = t.late, !.snap = t.snap,
                                     !.called = Append(t.called, d),
                                     !.errs = t.errs]
  /\ UNCHANGED <<topics, subs, handles, subscr, pumps, out, pubs, msgSeq,
                 protected, rejoined, node>>

\* "for _, topic := range topicList": the next descriptor, or "return nil".
PickNext(t, d) ==
  /\ ~node.crashed
  /\ t.pc = "pick"
  /\ IF t.todo = {} THEN
       /\ d = NoDescr
       /\ tasks' = Finish(tasks, t)
       /\ lastOp' = [Op(IF t.kind = "rejoin" THEN "RejoinAll" ELSE "AnnounceAll",
                        NoDescr, "OK") EXCEPT !.late = t.late, !.snap = t.snap,
                                              !.called = t.called,
                                              !.errs = t.errs]
     ELSE
       /\ d \in t.todo
       /\ tasks' = Spawn(Finish(tasks, t),
                         [t EXCEPT !.d = d, !.todo = @ \ {d},
                                   !.called = Append(@, d),
                                   !.pc = IF t.kind = "rejoin" THEN "find" ELSE "call"])
       /\ lastOp' = [Op(IF t.kind = "rejoin" THEN "RejoinAll" ELSE "AnnounceAll",
                        d, "Next") EXCEPT !.late = t.late, !.snap = t.snap,
                                          !.called = Append(t.called, d),
                                          !.errs = t.errs]
  /\ UNCHANGED <<topics, subs, handles, subscr, pumps, out, pubs, msgSeq,
                 protected, rejoined, node>>

\* RejoinChannel(desc) called on demand (rejoinCmd's goroutine).
RejoinDemand(d) ==
  /\ ~node.crashed
  /\ BagCardinality(tasks) < MaxTasks
  /\ tasks' = Spawn(tasks, SpawnRejoin(d))
  /\ lastOp' = Op("RejoinDemand", d, "Started")
  /\ UNCHANGED <<topics, subs, handles, subscr, pumps, out, pubs, msgSeq,
                 protected, rejoined, node>>

\* RejoinChannel up to its loop: Discover.FindPeers. ok: whether it succeeds;
\* stream: the peers it yields, each with the result Host.Connect will have.
RejoinFind(t, ok, stream) ==
  /\ ~node.crashed
  /\ t.kind = "rejoin"
  /\ t.pc = "find"
  /\ IF ok THEN
       /\ Cardinality(InLoop) < MaxLoops
       /\ tasks' = Spawn(Finish(tasks, t), [t EXCEPT !.pc = "loop", !.list = stream])
       /\ rejoined' = [rejoined EXCEPT ![t.d] = IF @ = 0 THEN 1 ELSE 2]
       /\ lastOp' = [Op("RejoinFind", t.d, "OK")
                       EXCEPT !.calls = {"FindPeers"}, !.late = t.late,
                              !.snap = t.snap, !.called = t.called,
                              !.errs = t.errs]
     ELSE
       /\ stream = <<>>
       /\ tasks' = AfterCall(tasks, t, FALSE)
       /\ rejoined' = rejoined
       /\ lastOp' = [Op("RejoinChannel", t.d, "FindPeersFailed")
                       EXCEPT !.calls = {"FindPeers"}, !.failed = {"FindPeers"},
                              !.late = t.late, !.snap = t.snap,
                              !.called = t.called,
                              !.errs = ErrsAfter(t, FALSE)]
  /\ UNCHANGED <<topics, subs, handles, subscr, pumps, out, pubs, msgSeq,
                 protected, node>>

\* The deadline of "ctx, cancel := context.WithTimeout(n.nodeContext,
\* time.Minute)" passes while RejoinChannel is in its loop. ctx is the
\* argument of Host.Connect and of nothing else: the loop ranges over the
\* stream of FindPeers(n.nodeContext, ...). Host.Connect fails from then on
\* for a peer it has to dial and succeeds for one that is connected; the ok
\* of an entry stands for either.
RejoinTimeout(t) ==
  /\ ~node.crashed
  /\ t.kind = "rejoin"
  /\ t.pc = "loop"
  /\ ~t.expired
  /\ tasks' = Spawn(Finish(tasks, t), [t EXCEPT !.expired = TRUE])
  /\ lastOp' = [Op("RejoinTimeout", t.d, "Expired")
                  EXCEPT !.late = t.late, !.snap = t.snap, !.called = t.called,
                         !.errs = t.errs, !.expired = TRUE]
  /\ UNCHANGED <<topics, subs, handles, subscr, pumps, out, pubs, msgSeq,
                 protected, rejoined, node>>

\* A loop that dials the local node as well.
DialsEveryone(e) == TRUE

\* "if peer.ID == n.Host.ID() { continue }": whether the loop reaches
\* Host.Connect for entry e.
Dials(e) == e.id # Self

\* Protects without "if protectedCount >= 10".
ProtectsNoCap(e, count) == e.id # Self /\ e.ok

\* Protects without the "continue" after a failed Host.Connect.
ProtectsUnconnected(e, count) == e.id # Self /\ ~(count >= ProtectCap)

\* The body of "for peer := range pis" for entry e with protectedCount =
\* count: whether it reaches ConnManager().Protect.
Protects(e, count) ==
  /\ e.id # Self
  /\ e.ok
  /\ ~(count >= ProtectCap)

\* One turn of RejoinChannel's loop.
RejoinPeer(t) ==
  /\ ~node.crashed
  /\ t.kind = "rejoin"
  /\ t.pc = "loop"
  /\ t.pos < Len(t.list)
  /\ LET e == t.list[t.pos + 1]
         p == Protects(e, t.count)
     IN
     /\ tasks' = Spawn(Finish(tasks, t),
                       [t EXCEPT !.pos = @ + 1,
                                 !.dialed = IF Dials(e) THEN Append(@, e.id) ELSE @,
                                 !.count = IF p THEN @ + 1 ELSE @,
                                 !.added = IF p THEN @ \cup {e.id} ELSE @])
     /\ protected' = IF p THEN [protected EXCEPT ![t.d] = @ \cup {e.id}]
                     ELSE protected
     /\ lastOp' = [Op("RejoinPeer", t.d, IF p THEN "Protected" ELSE "Skipped")
                     EXCEPT !.calls = (IF Dials(e) THEN {"Connect"} ELSE {})
                                        \cup (IF p THEN {"Protect"} ELSE {}),
                            !.failed = IF Dials(e) /\ ~e.ok THEN {"Connect"} ELSE {},
                            !.peers = {e.id},
                            !.late = t.late, !.snap = t.snap,
                            !.called = t.called, !.errs = t.errs,
                            !.expired = t.expired]
  /\ UNCHANGED <<topics, subs, handles, subscr, pumps, out, pubs, msgSeq,
                 rejoined, node>>

\* "if protectedCount == 0 { return errors.New(...) }; return nil"
RejoinResult(count) == IF count = 0 THEN "RejoinFailed" ELSE "OK"

\* RejoinChannel after its loop: the stream has ended.
RejoinEnd(t) ==
  /\ ~node.crashed
  /\ t.kind = "rejoin"
  /\ t.pc = "loop"
  /\ t.pos = Len(t.list)
  /\ tasks' = AfterCall(tasks, t, RejoinResult(t.count) = "OK")
  /\ lastOp' = [Op("RejoinChannel", t.d, RejoinResult(t.count))
                  EXCEPT !.peers = t.added, !.list = t.list, !.late = t.late,
                         !.val = t.dialed, !.expired = t.expired,
                         !.snap = t.snap, !.called = t.called,
                         !.errs = ErrsAfter(t, RejoinResult(t.count) = "OK")]
  /\ UNCHANGED <<topics, subs, handles, subscr, pumps, out, pubs, msgSeq,
                 protected, rejoined, node>>

(* ----------------------------- descriptors --------------------------- *)

\* What the user can type: short strings over these characters, and full
\* forms.
Alphabet == {"#", "@", "/", "a"}
Inputs ==
  SeqsUpTo(Alphabet, MaxLen)
    \cup {ChanPrefix \o x : x \in SeqsUpTo(Alphabet, 1)}
    \cup {DMPrefix \o x : x \in SeqsUpTo(Alphabet, 1)}

\* s[n:]
From(s, n) == SubSeq(s, n + 1, Len(s))

\* ExpandDescriptor with the channel prefix for both markers.
ExpandDescriptorOnePrefix(shortForm) ==
  IF HasPrefix(shortForm, <<"/">>)
    THEN [ok |-> TRUE, val |-> shortForm]
  ELSE IF HasPrefix(shortForm, <<"#">>) \/ HasPrefix(shortForm, <<"@">>)
    THEN [ok |-> TRUE, val |-> ChanPrefix \o From(shortForm, 1)]
  ELSE [ok |-> FALSE, val |-> <<>>]

\* ExpandDescriptor without the case of a string that begins with "/".
ExpandDescriptorNoSlash(shortForm) ==
  IF HasPrefix(shortForm, <<"#">>)
    THEN [ok |-> TRUE, val |-> ChanPrefix \o From(shortForm, 1)]
  ELSE IF HasPrefix(shortForm, <<"@">>)
    THEN [ok |-> TRUE, val |-> DMPrefix \o From(shortForm, 1)]
  ELSE [ok |-> FALSE, val |-> <<>>]

\* ExpandDescriptor(shortForm): ok is "err == nil".
ExpandDescriptor(shortForm) ==
  IF HasPrefix(shortForm, <<"/">>)
    THEN [ok |-> TRUE, val |-> shortForm]
  ELSE IF HasPrefix(shortForm, <<"#">>)
    THEN [ok |-> TRUE, val |-> ChanPrefix \o From(shortForm, 1)]
  ELSE IF HasPrefix(shortForm, <<"@">>)
    THEN [ok |-> TRUE, val |-> DMPrefix \o From(shortForm, 1)]
  ELSE [ok |-> FALSE, val |-> <<>>]

\* DescriptorForDisplay that returns its argument.
DescriptorForDisplayAsIs(fullForm) == fullForm

\* DescriptorForDisplay(fullForm)
DescriptorForDisplay(fullForm) ==
  IF HasPrefix(fullForm, <<"#">>) \/ HasPrefix(fullForm, <<"@">>)
    THEN fullForm
  ELSE IF HasPrefix(fullForm, ChanPrefix)
    THEN <<"#">> \o From(fullForm, Len(ChanPrefix))
  ELSE IF HasPrefix(fullForm, DMPrefix)
    THEN <<"@">> \o From(fullForm, Len(DMPrefix))
  ELSE fullForm

\* The string at hand: an input, or what a successful call returned.
HasValue == lastOp.op \in {"Input", "ExpandDescriptor", "DescriptorForDisplay"}
              /\ lastOp.ret = "OK"

\* A call of ExpandDescriptor on the string at hand. list: the input it all
\* began with; calls: the functions applied to it so far.
CallExpand ==
  /\ HasValue
  /\ LET r == ExpandDescriptor(lastOp.val) IN
     lastOp' = [Op("ExpandDescriptor", NoDescr,
                   IF r.ok THEN "OK" ELSE "InvalidDescriptor")
                  EXCEPT !.list = lastOp.list, !.val = r.val,
                         !.calls = lastOp.calls \cup {"ExpandDescriptor"}]
  /\ UNCHANGED <<topics, subs, handles, subscr, pumps, out, pubs, msgSeq,
                 protected, tasks, rejoined, node>>

\* A call of DescriptorForDisplay on the string at hand.
CallDisplay ==
  /\ HasValue
  /\ lastOp' = [Op("DescriptorForDisplay", NoDescr, "OK")
                  EXCEPT !.list = lastOp.list,
                         !.val = DescriptorForDisplay(lastOp.val),
                         !.calls = lastOp.calls \cup {"DescriptorForDisplay"}]
  /\ UNCHANGED <<topics, subs, handles, subscr, pumps, out, pubs, msgSeq,
                 protected, tasks, rejoined, node>>

(* ------------------------------ errhelper ----------------------------- *)

\* h.deferList of the caller after "func (h H) Cleanup(f func())" or
\* "func (h H) CleanupClose(c io.Closer)" returned: the receiver is a copy of
\* the caller's H, the assignment to h.deferList changes the copy, and the
\* copy is gone at the return.
AfterRegister(deferList, f) == deferList

\* list[len-1], ..., list[0]
Reverse(list) == [i \in 1..Len(list) |-> list[Len(list) + 1 - i]]

\* RunCleanup: the functions it runs, in order, and h.deferList after it.
RunCleanup(deferList) == [ran |-> Reverse(deferList), left |-> <<>>]

\* h.Cleanup(f) and h.CleanupClose(c); the function is named by its number.
CallCleanup(kind) ==
  /\ lastOp.op \in {"New", "Cleanup", "CleanupClose", "Fail", "RunCleanup"}
  /\ Len(lastOp.called) < MaxFuncs
  /\ LET f == [kind |-> kind, n |-> Len(lastOp.called) + 1] IN
     lastOp' = [Op(kind, NoDescr, "OK")
                  EXCEPT !.list = AfterRegister(lastOp.list, f),
                         !.called = Append(lastOp.called, f)]
  /\ UNCHANGED <<topics, subs, handles, subscr, pumps, out, pubs, msgSeq,
                 protected, tasks, rejoined, node>>

\* h.Fail(err); err is "nil" or an error.
CallFail(err) ==
  /\ lastOp.op \in {"New", "Cleanup", "CleanupClose", "Fail", "RunCleanup"}
  /\ IF err = "nil"
     THEN lastOp' = [Op("Fail", NoDescr, "nil")
                       EXCEPT !.list = lastOp.list, !.called = lastOp.called,
                              !.failed = {err}]
     ELSE LET r == RunCleanup(lastOp.list) IN
          lastOp' = [Op("Fail", NoDescr, "Wrap(err)")
                       EXCEPT !.list = r.left, !.called = <<>>, !.val = r.ran,
                              !.failed = {err}]
  /\ UNCHANGED <<topics, subs, handles, subscr, pumps, out, pubs, msgSeq,
                 protected, tasks, rejoined, node>>

\* h.RunCleanup()
CallRunCleanup ==
  /\ lastOp.op \in {"New", "Cleanup", "CleanupClose", "Fail", "RunCleanup"}
  /\ LET r == RunCleanup(lastOp.list) IN
     lastOp' = [Op("RunCleanup", NoDescr, "OK")
                  EXCEPT !.list = r.left, !.called = <<>>, !.val = r.ran]
  /\ UNCHANGED <<topics, subs, handles, subscr, pumps, out, pubs, msgSeq,
                 protected, tasks, rejoined, node>>

(* -------------------------------- Status ------------------------------ *)

\* StatusState that compares with the low mark before the bootstrap list.
StatusStateLowFirst(c, b, L) ==
  IF c = 0 THEN "Alone."
  ELSE IF c < L THEN "Active."
  ELSE IF c <= b /\ ~(b = 0) THEN "Bootstrapping..."
  ELSE "Ready."

\* StatusState with "<=" for the low mark.
StatusStateAtMark(c, b, L) ==
  IF c = 0 THEN "Alone."
  ELSE IF c <= b /\ ~(b = 0) THEN "Bootstrapping..."
  ELSE IF c <= L THEN "Active."
  ELSE "Ready."

\* s.State of Status for c = s.ConnectedPeers, b = len(n.Cfg.Bootstrap) and
\* L = n.Cfg.ConnsLow.
StatusState(c, b, L) ==
  IF c = 0 THEN "Alone."
  ELSE IF c <= b /\ ~(b = 0) THEN "Bootstrapping..."
  ELSE IF c < L THEN "Active."
  ELSE "Ready."

\* Status() while c peers are connected: 1..c is Host.Network().Peers().
Status(c) ==
  /\ ~node.crashed
  /\ lastOp' = [Op("Status", NoDescr,
                   StatusState(c, node.bootstrap, node.connsLow))
                  EXCEPT !.peers = 1..c]
  /\ UNCHANGED <<topics, subs, handles, subscr, pumps, out, pubs, msgSeq,
                 protected, tasks, rejoined, node>>

(* --------------------------- specifications --------------------------- *)

Joining(ds, meshes) ==
  \/ \E d \in ds, joinOk, subOk \in BOOLEAN : JoinChannel(d, joinOk, subOk)
  \/ \E d \in ds, listed \in meshes, closeOk \in BOOLEAN :
       LeaveChannel(d, listed, closeOk)

Pumping ==
  \E s \in 1..MaxSubs, outcome \in {"msg", "cancelled", "ctx", "error"} :
       PumpNext(s, outcome)

Messaging ==
  \/ \E d \in Descriptors : Post(d)
  \/ \E p \in pubs, ok \in BOOLEAN : Publish(p, ok)
  \/ \E s \in 1..MaxSubs, from \in {Self, 1} : Deliver(s, from)
  \/ \E s \in 1..MaxSubs : Emit(s)

Shutdown ==
  \/ \E s \in 1..MaxSubs : SendOnClosed(s)
  \/ CloseBegin
  \/ CloseEnd

Announcing ==
  \/ \E t \in Running, ok \in BOOLEAN : AnnounceChannel(t, ok)
  \/ BeginAll("announce")

Cycles(ds, streams) ==
  \/ BeginAll("rejoin")
  \/ \E t \in Running, d \in ds \cup {NoDescr} : PickNext(t, d)
  \/ \E d \in ds : RejoinDemand(d)
  \/ \E t \in Running, ok \in BOOLEAN, stream \in streams : RejoinFind(t, ok, stream)
  \/ \E t \in Running : RejoinPeer(t)
  \/ \E t \in Running : RejoinEnd(t)

\* The node with its pumps and its consumer. The goroutines JoinChannel
\* starts for the announce and the rejoin stay where they are.
Next == Joining(JoinDescriptors, {{}, {1, 2}}) \/ Pumping \/ Messaging
Spec == Init /\ [][Next]_vars

\* The node's membership of one channel and its rejoin cycles: started by
\* JoinChannel, by RejoinAll and on demand. No messages arrive, and the
\* announces stay where they are.
NextRejoin ==
  Joining({"chanA"}, MeshChoices) \/ Cycles({"chanA"}, Streams)
SpecRejoin == Init /\ [][NextRejoin]_vars

\* Close and the pumps; the announces. (Specifications of their own.)
NextShutdown == Joining({"chanA"}, {{}}) \/ Pumping \/ Messaging \/ Shutdown
SpecShutdown == Init /\ [][NextShutdown]_vars
\* The scheduler runs a goroutine that can run: a pump whose sub.Next can
\* return the cancellation returns, a send on the closed channel panics, and
\* Close reaches its deferred close(n.messages). Nothing makes the consumer
\* read.
FairShutdown ==
  /\ \A s \in 1..MaxSubs :
       /\ WF_vars(PumpNext(s, "ctx") \/ PumpNext(s, "cancelled"))
       /\ WF_vars(SendOnClosed(s))
  /\ WF_vars(CloseEnd)
\* The node with Close called once.
FirstClose == node.ch = "open" /\ CloseBegin
NextCloseOnce ==
  \/ Joining({"chanA"}, {{}})
  \/ Pumping
  \/ Messaging
  \/ \E s \in 1..MaxSubs : SendOnClosed(s)
  \/ FirstClose
  \/ CloseEnd
SpecCloseOnce == Init /\ [][NextCloseOnce]_vars /\ FairShutdown

\* Status under every configuration.
InitStatus ==
  /\ Fresh
  /\ \E b \in 0..MaxBootstrap, L \in 0..MaxLow : node = NewNode(b, L)
  /\ lastOp = Op("NewNode", NoDescr, "OK")
NextStatus ==
  \/ Joining({"chanA"}, {{}})
  \/ \E c \in 0..MaxConns : Status(c)
SpecStatus == InitStatus /\ [][NextStatus]_vars

\* One errhelper.H from errhelper.New on.
InitHelper ==
  /\ Fresh
  /\ node = NewNode(0, lowConnsMark)
  /\ lastOp = Op("New", NoDescr, "OK")
NextHelper ==
  \/ \E kind \in {"Cleanup", "CleanupClose"} : CallCleanup(kind)
  \/ \E err \in {"nil", "err1", "err2"} : CallFail(err)
  \/ CallRunCleanup
SpecHelper == InitHelper /\ [][NextHelper]_vars

\* The descriptor functions on every input.
InitDescr ==
  /\ Fresh
  /\ node = NewNode(0, lowConnsMark)
  /\ \E x \in Inputs :
       lastOp = [Op("Input", NoDescr, "OK") EXCEPT !.list = x, !.val = x]
NextDescr == CallExpand \/ CallDisplay
SpecDescr == InitDescr /\ [][NextDescr]_vars

\* The ticker loops and Close: BeginAll is what a tick of rejoinGoroutine or
\* announceGoroutine runs.
NextTickers ==
  \/ Joining({"chanA"}, {{}})
  \/ Cycles({"chanA"}, {<<>>, Run(1, 1, TRUE)})
  \/ Announcing
  \/ FirstClose
  \/ CloseEnd
SpecTickers == Init /\ [][NextTickers]_vars

\* The running node with its two tickers: one channel is joined and left,
\* and every goroutine that can take a step takes it in time.
NextRunning ==
  \/ Joining({"chanA"}, {{}})
  \/ \E kind \in {"rejoin", "announce"} : Tick(kind)
  \/ \E t \in Running, d \in {"chanA", NoDescr} : PickNext(t, d)
  \/ \E t \in Running, ok \in BOOLEAN, stream \in {<<>>, Run(1, 1, TRUE)} :
       RejoinFind(t, ok, stream)
  \/ \E t \in Running : RejoinPeer(t)
  \/ \E t \in Running : RejoinEnd(t)
  \/ \E t \in Running, ok \in BOOLEAN : AnnounceChannel(t, ok)
\* The goroutines of one origin: the cycles of a ticker (all), or what
\* JoinChannel started.
Goroutines(kind, all) == {t \in Running : t.kind = kind /\ t.all = all}
FairRunning ==
  /\ \A kind \in {"rejoin", "announce"} :
       /\ WF_vars(Tick(kind))
       /\ WF_vars(\E t \in Goroutines(kind, TRUE), d \in {"chanA", NoDescr} :
                    PickNext(t, d))
  /\ \A all \in BOOLEAN :
       /\ WF_vars(\E t \in Goroutines("rejoin", all), ok \in BOOLEAN,
                     stream \in {<<>>, Run(1, 1, TRUE)} :
                    RejoinFind(t, ok, stream))
       /\ WF_vars(\E t \in Goroutines("rejoin", all) : RejoinPeer(t))
       /\ WF_vars(\E t \in Goroutines("rejoin", all) : RejoinEnd(t))
       /\ WF_vars(\E t \in Goroutines("announce", all), ok \in BOOLEAN :
                    AnnounceChannel(t, ok))
SpecRunning == Init /\ [][NextRunning]_vars /\ FairRunning

\* The node as the receiver of what peer 1 posts and as the sender of its
\* own posts: the pumps run, and the consumer reads Messages().
FairDelivery ==
  \A s \in 1..MaxSubs :
    WF_vars(PumpNext(s, "msg")) /\ WF_vars(Emit(s))
NextEndToEnd == Joining(JoinDescriptors, {{}}) \/ Pumping \/ Messaging
SpecEndToEnd == Init /\ [][NextEndToEnd]_vars /\ FairDelivery

\* One channel and its rejoin cycles, with the minute of a cycle running out.
NextTimeout ==
  \/ Joining({"chanA"}, {{}})
  \/ Cycles({"chanA"}, SmallStreams)
  \/ \E t \in Running : RejoinTimeout(t)
SpecTimeout == Init /\ [][NextTimeout]_vars

\* Two channels that are joined and left, with the rejoin cycles JoinChannel
\* starts.
NextLeave ==
  \/ Joining(JoinDescriptors, {{}, {1}})
  \/ \E t \in Running, ok \in BOOLEAN, stream \in {<<>>, Run(1, 1, TRUE)} :
       RejoinFind(t, ok, stream)
  \/ \E t \in Running : RejoinPeer(t)
  \/ \E t \in Running : RejoinEnd(t)
SpecLeave == Init /\ [][NextLeave]_vars

\* Two channels that are joined, and after the goroutines of JoinChannel the
\* cycles of RejoinAll and AnnounceAll.
NextCycles ==
  \/ \E d \in JoinDescriptors : JoinChannel(d, TRUE, TRUE)
  \/ Cycles(JoinDescriptors, {<<>>, Run(1, 1, TRUE)})
  \/ Announcing
SpecCycles == Init /\ [][NextCycles]_vars
NextAnnounce == Joining(JoinDescriptors, {{}}) \/ Announcing
SpecAnnounce == Init /\ [][NextAnnounce]_vars

(* ------------------------------ properties ---------------------------- *)

\* Everything of the node but the record of the last step.
state == <<topics, subs, handles, subscr, pumps, out, pubs, msgSeq,
           protected, tasks, rejoined, node>>

\* The pumps of d's subscriptions that have not returned.
PumpsOf(d) ==
  {s \in 1..Len(pumps) : subscr[s].topic = d /\ pumps[s].pc # "done"}

\* Those of them that cannot return at their next step: blocked in the send,
\* or reading a subscription that is not cancelled.
LivePumps(d) ==
  {s \in PumpsOf(d) : pumps[s].pc = "send" \/ ~subscr[s].cancelled}

AllOk(list) == \A i \in 1..Len(list) : list[i].ok
NoneConnects(list) == \A i \in 1..Len(list) : list[i].id = Self \/ ~list[i].ok

\* C1: a JoinChannel(d) that finds d joined (a second call with no
\* LeaveChannel in between) returns success, creates no subscription and
\* starts no pump, Announce or Rejoin, and afterwards d has exactly one
\* record (one topic handle, one subscription) and exactly one live pump.
C1_JoinTwice ==
  [][(lastOp'.op = "JoinChannel" /\ IsJoined(lastOp'.d)) =>
       LET d == lastOp'.d IN
       /\ lastOp'.ret = "OK"
       /\ lastOp'.spawned = {}
       /\ UNCHANGED <<topics, subs, handles, subscr, pumps, tasks>>
       /\ d \in DOMAIN topics' /\ d \in DOMAIN subs'
       /\ Cardinality({s \in 1..Len(subscr') : subscr'[s].topic = d
                                                /\ ~subscr'[s].cancelled}) = 1
       /\ Cardinality({s \in 1..Len(pumps') : subscr'[s].topic = d
                        /\ (pumps'[s].pc = "send"
                              \/ (pumps'[s].pc = "next" /\ ~subscr'[s].cancelled))}) = 1
    ]_vars

\* What of C1 holds: the second call returns success and changes nothing,
\* and d's one live subscription is the recorded one, with its pump.
SecondJoinIsNoOp ==
  [][(lastOp'.op = "JoinChannel" /\ IsJoined(lastOp'.d)) =>
       LET d == lastOp'.d IN
       /\ lastOp'.ret = "OK"
       /\ lastOp'.spawned = {}
       /\ UNCHANGED state
       /\ LiveSubs(d) = {subs[d]}
       /\ pumps[subs[d]].pc # "done"
    ]_vars

\* C2: every descriptor has at most one live subscription and at most one
\* live message pump, in every reachable state.
C2_OnePumpPerDescriptor ==
  \A d \in JoinDescriptors :
    /\ Cardinality(LiveSubs(d)) <= 1
    /\ Cardinality(LivePumps(d)) <= 1

\* What of C2 holds: at most one live subscription per descriptor, the
\* recorded one.
OneLiveSubscription ==
  \A d \in JoinDescriptors :
    LiveSubs(d) = IF IsJoined(d) THEN {subs[d]} ELSE {}

\* C3: LeaveChannel(d) with no record of d returns NotJoined, changes
\* nothing and calls neither Unprotect nor Cancel nor Close.
C3_LeaveNotJoined ==
  [][(lastOp'.op = "LeaveChannel" /\ ~IsJoined(lastOp'.d)) =>
       /\ lastOp'.ret = "NotJoined"
       /\ lastOp'.calls = {}
       /\ UNCHANGED state
    ]_vars

\* A LeaveChannel returned NotJoined while peers hold the descriptor's tag.
C3_Witness ==
  /\ lastOp.op = "LeaveChannel"
  /\ lastOp.ret = "NotJoined"
  /\ ~IsJoined(lastOp.d)
  /\ protected[lastOp.d] # {}

\* C4: LeaveChannel(d) on a joined d removes the tag d from every peer of
\* the topic's peer list (and from no other), cancels the subscription,
\* calls Close on the topic handle and deletes the record; it returns
\* LeaveFailed exactly when Close fails, and the record is gone and the
\* subscription cancelled then too.
C4_LeaveJoined ==
  [][(lastOp'.op = "LeaveChannel" /\ IsJoined(lastOp'.d)) =>
       LET d == lastOp'.d IN
       /\ lastOp'.ret = IF "Close" \in lastOp'.failed THEN "LeaveFailed" ELSE "OK"
       /\ protected'[d] \cap lastOp'.peers = {}
       /\ protected'[d] = protected[d] \ lastOp'.peers
       /\ \A e \in Descriptors \ {d} : protected'[e] = protected[e]
       /\ {"Cancel", "Close"} \subseteq lastOp'.calls
       /\ subscr'[subs[d]].cancelled
       /\ "Close" \notin lastOp'.failed => ~handles'[topics[d]].open
       /\ d \notin DOMAIN topics'
       /\ d \notin DOMAIN subs'
    ]_vars

\* A LeaveChannel whose Close failed took the tag from two peers and left it
\* on others; the record is gone.
C4_Witness ==
  /\ lastOp.op = "LeaveChannel"
  /\ lastOp.ret = "LeaveFailed"
  /\ lastOp.peers = {1, 2}
  /\ protected[lastOp.d] # {}
  /\ ~IsJoined(lastOp.d)
  /\ \E s \in 1..Len(subscr) : subscr[s].topic = lastOp.d /\ subscr[s].cancelled

\* C5: when PubsubProto.Join fails, JoinChannel returns JoinFailed, adds no
\* record and starts no pump, Announce or Rejoin: the state is as before.
C5_JoinTopicFails ==
  [][(lastOp'.op = "JoinChannel" /\ "JoinTopic" \in lastOp'.failed) =>
       /\ lastOp'.ret = "JoinFailed"
       /\ lastOp'.spawned = {}
       /\ UNCHANGED state
    ]_vars

\* A JoinChannel returned JoinFailed; the descriptor is not joined.
C5_Witness ==
  /\ lastOp.op = "JoinChannel"
  /\ lastOp.ret = "JoinFailed"
  /\ "JoinTopic" \in lastOp.failed
  /\ ~IsJoined(lastOp.d)

\* C6: Post returns NotJoined for a channel descriptor with no record,
\* NotImplemented for a direct-message descriptor and InvalidDescriptor for
\* any other; in these cases nothing is published and nothing changes.
C6_PostErrors ==
  [][lastOp'.op = "Post" =>
       LET d == lastOp'.d
           chan == HasPrefix(Str(d), ChanPrefix)
           dm == HasPrefix(Str(d), DMPrefix)
       IN
       /\ (chan /\ d \notin DOMAIN topics) => lastOp'.ret = "NotJoined"
       /\ dm => lastOp'.ret = "NotImplemented"
       /\ (~chan /\ ~dm) => lastOp'.ret = "InvalidDescriptor"
       /\ (~chan \/ d \notin DOMAIN topics) =>
            (lastOp'.spawned = {} /\ UNCHANGED state)
    ]_vars

\* Post returned NotImplemented while a publication of an earlier Post waits.
C6_Witness ==
  /\ lastOp.op = "Post"
  /\ lastOp.ret = "NotImplemented"
  /\ pubs # {}

\* C7: no Message a pump sends or has sent on Messages() has the local node
\* as its sender: what a pump discarded is what the local node sent.
C7_NoSelfEcho ==
  /\ \A i \in 1..Len(out) : out[i].Sender # Self
  /\ \A s \in 1..Len(pumps) : pumps[s].pc = "send" => pumps[s].msg.Sender # Self

\* A pump discarded a payload of the local node and the consumer received a
\* later payload from it.
C7_Witness ==
  \E s \in 1..Len(pumps), i \in 1..Len(out) :
    /\ out[i].Channel = subscr[s].topic
    /\ \A r \in 1..Len(subscr) : subscr[r].topic = subscr[s].topic => r = s
    /\ \E k \in pumps[s].skipped : k < out[i].Text

\* C8: a cycle of RejoinChannel(d) whose discovery yields more than 10 peers,
\* all of which connect, tags at most 10 distinct peers; when it is the one
\* cycle there was for d, at most 10 distinct peers carry the tag d.
C8_RejoinCap ==
  (/\ lastOp.op = "RejoinChannel"
   /\ Len(lastOp.list) > ProtectCap
   /\ AllOk(lastOp.list)) =>
     /\ Cardinality(lastOp.peers) <= ProtectCap
     /\ rejoined[lastOp.d] = 1 => Cardinality(protected[lastOp.d]) <= ProtectCap

\* The one cycle for d found more than 10 peers, all connected, and 10 peers
\* carry the tag.
C8_Witness ==
  /\ lastOp.op = "RejoinChannel"
  /\ Len(lastOp.list) > ProtectCap
  /\ AllOk(lastOp.list)
  /\ rejoined[lastOp.d] = 1
  /\ Cardinality(protected[lastOp.d]) = ProtectCap

\* C9: in every reachable state at most 10 distinct peers hold the tag d.
C9_TagsBounded ==
  \A d \in Descriptors : Cardinality(protected[d]) <= ProtectCap

\* C10: a cycle of RejoinChannel(d) whose discovery yields no peer, or only
\* the local node and peers that fail to connect, returns RejoinFailed and
\* has tagged no peer.
C10_RejoinFailed ==
  (/\ lastOp.op = "RejoinChannel"
   /\ "FindPeers" \notin lastOp.failed
   /\ NoneConnects(lastOp.list)) =>
     /\ lastOp.ret = "RejoinFailed"
     /\ lastOp.peers = {}

\* A cycle that found the local node and a peer that did not connect
\* returned RejoinFailed.
C10_Witness ==
  /\ lastOp.op = "RejoinChannel"
  /\ lastOp.ret = "RejoinFailed"
  /\ Len(lastOp.list) = 2
  /\ \E i, j \in 1..2 : lastOp.list[i].id = Self /\ lastOp.list[j].id # Self
  /\ lastOp.peers = {}

\* C11: once Close has cancelled the node's context, every pump eventually
\* returns, whether it was reading its subscription or sending to Messages()
\* with nobody reading.
C11_PumpsTerminate ==
  (node.ctx = "cancelled") ~> (\A s \in 1..Len(pumps) : pumps[s].pc = "done")

\* C12: Messages() is closed by Close only, and close(n.messages) runs on the
\* open stream only: once, and not a second time however often Close is
\* called.
C12_ClosedOnce ==
  [][/\ (node.ch = "open" /\ node'.ch = "closed") => lastOp'.op = "Close"
     /\ (lastOp'.op = "Close" /\ lastOp'.ret # "Cancelled") => node.ch = "open"
    ]_vars

\* C13: no pump sends on Messages() after it was closed: the panic of a send
\* on the closed stream is unreachable.
C13_NoSendOnClosed ==
  ~(node.crashed /\ lastOp.op = "Emit" /\ lastOp.ret = "Panic")

\* C15: once Close has completed no membership record remains, every
\* subscription is cancelled and every topic handle is closed.
C15_TornDown ==
  node.ch = "closed" =>
    /\ \A d \in Descriptors : d \notin DOMAIN topics /\ d \notin DOMAIN subs
    /\ \A s \in 1..Len(subscr) : subscr[s].cancelled
    /\ \A s \in 1..Len(subscr) : \A h \in 1..Len(handles) :
         handles[h].d = subscr[s].topic => ~handles[h].open

\* C14: after Close has cancelled the node's context no RejoinAll or
\* AnnounceAll begins (both ticker loops have stopped), and no step of such a
\* cycle calls FindPeers, Connect, Protect or Advertise.
C14_TickersStop ==
  /\ ~(lastOp.late /\ lastOp.ret = "Snapshot")
  /\ lastOp.late =>
       lastOp.calls \cap {"FindPeers", "Connect", "Protect", "Advertise"} = {}

\* C16: no operation calls the overlay or discovery with pubsubLock held.
C16_LockOnlyForMaps ==
  lastOp.held = {}

\* C17: Status() labels the node by the first of: no connected peer, Alone.
\* (isolated); a non-empty bootstrap list and at most as many connected peers
\* as it has entries, Bootstrapping...; fewer connected peers than the low
\* mark, Active.; otherwise Ready. The label is one of the four, and Status()
\* changes nothing of the node.
C17_StatusLabel ==
  [][lastOp'.op = "Status" =>
       LET c == Cardinality(lastOp'.peers)
           b == node.bootstrap
           L == node.connsLow
           r == lastOp'.ret
           boot == b > 0 /\ c <= b
       IN
       /\ r \in {"Alone.", "Bootstrapping...", "Active.", "Ready."}
       /\ c = 0 => r = "Alone."
       /\ (c # 0 /\ boot) => r = "Bootstrapping..."
       /\ (c # 0 /\ ~boot /\ c < L) => r = "Active."
       /\ (c # 0 /\ ~boot /\ ~(c < L)) => r = "Ready."
       /\ UNCHANGED state
    ]_vars

\* Status() said Bootstrapping... with the low mark reached, on a node that
\* has joined a channel.
C17_Witness ==
  /\ lastOp.op = "Status"
  /\ lastOp.ret = "Bootstrapping..."
  /\ Cardinality(lastOp.peers) >= node.connsLow
  /\ node.connsLow > 0
  /\ IsJoined("chanA")

\* C18 as stated: whenever the connected peers are at least the low mark,
\* Status() says Ready.
C18_ReadyAtLowMark ==
  (lastOp.op = "Status" /\ Cardinality(lastOp.peers) >= node.connsLow) =>
    lastOp.ret = "Ready."

\* C18 amended: whenever the connected peers are at least the low mark, at
\* least one, and more than the bootstrap list has entries (or that list is
\* empty), Status() says Ready.
C18_ReadyAboveBootstrap ==
  (/\ lastOp.op = "Status"
   /\ Cardinality(lastOp.peers) >= node.connsLow
   /\ Cardinality(lastOp.peers) > 0
   /\ (node.bootstrap = 0 \/ Cardinality(lastOp.peers) > node.bootstrap)) =>
    lastOp.ret = "Ready."

\* Status() said Ready. with exactly the low mark of connected peers, more
\* than the non-empty bootstrap list.
C18_Witness ==
  /\ lastOp.op = "Status"
  /\ lastOp.ret = "Ready."
  /\ Cardinality(lastOp.peers) = node.connsLow
  /\ node.bootstrap > 0
  /\ Cardinality(lastOp.peers) > node.bootstrap

\* A short form: "#name" or "@name".
IsShortForm(x) == HasPrefix(x, <<"#">>) \/ HasPrefix(x, <<"@">>)

\* C19: what ExpandDescriptor returned without error it expands, without
\* error, to itself.
C19_ExpandIdempotent ==
  (lastOp.op = "ExpandDescriptor" /\ lastOp.ret = "OK") =>
    ExpandDescriptor(lastOp.val) = [ok |-> TRUE, val |-> lastOp.val]

\* ExpandDescriptor expanded a channel's short form with a name, alone.
C19_Witness ==
  /\ lastOp.op = "ExpandDescriptor"
  /\ lastOp.ret = "OK"
  /\ lastOp.calls = {"ExpandDescriptor"}
  /\ HasPrefix(lastOp.list, <<"#">>)
  /\ Len(lastOp.list) > 1
  /\ lastOp.val = ChanPrefix \o From(lastOp.list, 1)

\* C20: DescriptorForDisplay applied to what ExpandDescriptor returned for a
\* short form x returns x.
C20_RoundTrip ==
  (/\ lastOp.op = "DescriptorForDisplay"
   /\ IsShortForm(lastOp.list)
   /\ ExpandDescriptor(lastOp.list).ok
   /\ lastOp.calls = {"ExpandDescriptor", "DescriptorForDisplay"}) =>
    /\ lastOp.val = lastOp.list
    /\ DescriptorForDisplay(ExpandDescriptor(lastOp.list).val) = lastOp.list

\* The round trip of a direct message's short form with a name came back to
\* it.
C20_Witness ==
  /\ lastOp.op = "DescriptorForDisplay"
  /\ lastOp.calls = {"ExpandDescriptor", "DescriptorForDisplay"}
  /\ HasPrefix(lastOp.list, <<"@">>)
  /\ Len(lastOp.list) > 1
  /\ lastOp.val = lastOp.list

\* C21: ExpandDescriptor returns an input that begins with "/" unchanged,
\* turns "#rest" into ChanPrefix followed by rest and "@rest" into DMPrefix
\* followed by rest, and fails on every other input, the empty one included;
\* the prefixes differ, and no "@" input expands to what a "#" input expands
\* to.
C21_ExpandByFirstChar ==
  (lastOp.op = "ExpandDescriptor" /\ lastOp.calls = {"ExpandDescriptor"}) =>
    LET x == lastOp.list
        first == IF x = <<>> THEN "" ELSE x[1]
    IN
    /\ first = "/" => (lastOp.ret = "OK" /\ lastOp.val = x)
    /\ first = "#" => (lastOp.ret = "OK" /\ lastOp.val = ChanPrefix \o Tail(x))
    /\ first = "@" => (lastOp.ret = "OK" /\ lastOp.val = DMPrefix \o Tail(x))
    /\ first \notin {"/", "#", "@"} => lastOp.ret = "InvalidDescriptor"
    /\ ChanPrefix # DMPrefix
    /\ first = "#" =>
         \A y \in Inputs :
           HasPrefix(y, <<"@">>) => ExpandDescriptor(y).val # lastOp.val

\* ExpandDescriptor failed on the empty string.
C21_Witness ==
  /\ lastOp.op = "ExpandDescriptor"
  /\ lastOp.ret = "InvalidDescriptor"
  /\ lastOp.list = <<>>

\* C22: the messages of one channel come out of Messages() in the order the
\* overlay delivered them (payloads are numbered in delivery order), also
\* when the channel was left and joined again in between.
C22_OrderKept ==
  \A i, j \in 1..Len(out) :
    (i < j /\ out[i].Channel = out[j].Channel) => out[i].Text < out[j].Text

\* C23: the pump neither drops nor duplicates. A message it takes from its
\* subscription is either the node's own or goes into its hand with the
\* sender, the subscription's topic and the payload; while it holds a message
\* it reads nothing more, and the only way the message leaves its hand is one
\* send that appends exactly it to Messages(); nothing else reaches
\* Messages(), and no payload is there twice.
C23_NoLossNoDuplicate ==
  /\ [](\A i, j \in 1..Len(out) : out[i].Text = out[j].Text => i = j)
  /\ [][/\ \A s \in 1..Len(pumps) :
             /\ (pumps[s].pc = "next" /\
                 Len(subscr'[s].ch) < Len(subscr[s].ch)) =>
                  LET m == Head(subscr[s].ch) IN
                  /\ subscr'[s].ch = Tail(subscr[s].ch)
                  /\ out' = out
                  /\ IF m.from = Self
                     THEN pumps'[s].pc = "next"
                     ELSE /\ pumps'[s].pc = "send"
                          /\ pumps'[s].msg =
                               [Sender |-> m.from, Channel |-> subscr[s].topic,
                                Text |-> m.data]
             /\ (pumps[s].pc = "next" /\ pumps'[s].pc = "send") =>
                  Len(subscr'[s].ch) < Len(subscr[s].ch)
             /\ pumps[s].pc = "send" =>
                  \/ /\ pumps'[s] = pumps[s]
                     /\ Len(subscr'[s].ch) >= Len(subscr[s].ch)
                  \/ /\ out' = Append(out, pumps[s].msg)
                     /\ pumps'[s].pc = "next"
                     /\ subscr'[s] = subscr[s]
        /\ out' # out =>
             \E s \in 1..Len(pumps) :
               /\ pumps[s].pc = "send"
               /\ out' = Append(out, pumps[s].msg)
               /\ pumps'[s].pc = "next"]_vars

\* A pump is blocked in its send while a later message waits unread in its
\* subscription.
C23_Witness ==
  \E s \in 1..Len(pumps) : pumps[s].pc = "send" /\ subscr[s].ch # <<>>

\* C24: a pump returns only from a read that failed because its subscription
\* is cancelled or the node's context is cancelled, and it logs nothing then;
\* a read that fails otherwise is logged and leaves the pump, its subscription
\* and Messages() as they were, so the pump reads again.
C24_ReadErrors ==
  [][/\ \A s \in 1..Len(pumps) :
          (pumps[s].pc # "done" /\ pumps'[s].pc = "done") =>
            /\ pumps[s].pc = "next"
            /\ subscr[s].cancelled \/ node.ctx = "cancelled"
            /\ lastOp'.op = "PumpNext" /\ lastOp'.ret = "Return"
            /\ lastOp'.calls = {}
     /\ (lastOp'.op = "PumpNext" /\ lastOp'.ret = "ReadError") =>
          /\ lastOp'.calls = {"Println"}
          /\ pumps' = pumps /\ subscr' = subscr /\ out' = out]_vars

\* A read failed with another error while the node and the subscription are
\* live, and the pump is back at its read with a message waiting for it.
C24_Witness ==
  /\ lastOp.op = "PumpNext" /\ lastOp.ret = "ReadError"
  /\ node.ctx # "cancelled"
  /\ \E s \in 1..Len(pumps) :
       /\ subscr[s].topic = lastOp.d /\ ~subscr[s].cancelled
       /\ pumps[s].pc = "next" /\ subscr[s].ch # <<>>

\* C25: LeaveChannel(d) leaves every other descriptor alone: its records, its
\* subscriptions, its topic handles and its protection tags are as before,
\* no pump is touched, and of the tags with reason d only those of the listed
\* peers go; a peer tagged for another channel is tagged for it afterwards.
C25_LeaveFrame ==
  [][lastOp'.op = "LeaveChannel" =>
       LET d == lastOp'.d IN
       /\ \A e \in Descriptors \ {d} :
            /\ protected'[e] = protected[e]
            /\ (e \in DOMAIN topics') = (e \in DOMAIN topics)
            /\ (e \in DOMAIN subs') = (e \in DOMAIN subs)
            /\ e \in DOMAIN topics => topics'[e] = topics[e]
            /\ e \in DOMAIN subs => subs'[e] = subs[e]
       /\ Len(subscr') = Len(subscr) /\ Len(handles') = Len(handles)
       /\ \A s \in 1..Len(subscr) :
            subscr[s].topic # d => subscr'[s] = subscr[s]
       /\ \A h \in 1..Len(handles) :
            handles[h].d # d => handles'[h] = handles[h]
       /\ pumps' = pumps
       /\ protected[d] \ lastOp'.peers \subseteq protected'[d]
       /\ \A p \in RemotePeers :
            (\E e \in Descriptors \ {d} : p \in protected[e]) =>
              (\E e \in Descriptors : p \in protected'[e])
    ]_vars

\* A channel was left whose mesh listed a peer that holds the tag of another
\* channel, which is still joined; the peer has that tag and not the one of
\* the channel left, for which a rejoin cycle had run.
C25_Witness ==
  /\ lastOp.op = "LeaveChannel" /\ lastOp.ret = "OK"
  /\ rejoined[lastOp.d] > 0
  /\ \E e \in Descriptors \ {lastOp.d}, p \in lastOp.peers :
       /\ IsJoined(e)
       /\ p \in protected[e]
       /\ p \notin protected[lastOp.d]

\* C26: a RejoinAll/AnnounceAll that returned has called Rejoin/Announce once
\* for every descriptor of its snapshot and for no other, and it returns nil
\* whatever the calls returned; a call that fails leaves the cycle at its
\* loop with the rest of the snapshot still to do; the overlay calls of the
\* cycle are made without pubsubLock.
C26_CycleCoversSnapshot ==
  /\ [](lastOp.op \in {"RejoinAll", "AnnounceAll"} =>
          /\ lastOp.ret \in {"Snapshot", "Next", "OK"}
          /\ lastOp.ret = "OK" =>
               /\ {lastOp.called[i] : i \in 1..Len(lastOp.called)} = lastOp.snap
               /\ Len(lastOp.called) = Cardinality(lastOp.snap))
  /\ [](lastOp.snap # {} => lastOp.held = {})
  /\ [][(/\ lastOp'.snap # {}
         /\ lastOp'.ret \in {"FindPeersFailed", "RejoinFailed", "AnnounceFailed"}
         /\ lastOp' # lastOp) =>
          \E u \in Running' :
            /\ u.all /\ u.pc = "pick"
            /\ u.snap = lastOp'.snap /\ u.called = lastOp'.called
            /\ u.todo =
                 u.snap \ {u.called[i] : i \in 1..Len(u.called)}
            /\ lastOp'.d \in u.errs]_vars

\* A RejoinAll over a snapshot of two descriptors returned nil; the call for
\* the first descriptor had failed, and the second was called after it.
C26_Witness ==
  /\ lastOp.op = "RejoinAll" /\ lastOp.ret = "OK"
  /\ Cardinality(lastOp.snap) = 2
  /\ Len(lastOp.called) = 2
  /\ lastOp.called[1] \in lastOp.errs

\* C27: a Rejoin cycle that ran to the end of its stream has called
\* Host.Connect for every discovered peer but the local node, in the order of
\* the stream; a Connect that fails leaves the cycle in its loop at the next
\* entry; the local node is neither dialed nor tagged.
C27_EveryPeerDialed ==
  /\ []((lastOp.op = "RejoinChannel" /\
         lastOp.ret \in {"OK", "RejoinFailed"}) =>
          LET Remote(e) == e.id # Self
              found == SelectSeq(lastOp.list, Remote)
          IN lastOp.val = [i \in 1..Len(found) |-> found[i].id])
  /\ [](\A d \in Descriptors : Self \notin protected[d])
  /\ [][(lastOp'.op = "RejoinPeer" /\ lastOp' # lastOp) =>
          /\ Self \in lastOp'.peers => lastOp'.calls = {}
          /\ Self \notin lastOp'.peers => "Connect" \in lastOp'.calls
          /\ \E t \in Running, u \in Running' :
               /\ t.pc = "loop" /\ u.pc = "loop"
               /\ u.d = lastOp'.d /\ u.list = t.list /\ u.pos = t.pos + 1
               /\ t.list[u.pos].id \in lastOp'.peers]_vars

\* A cycle returned whose first Connect had failed and whose second gave the
\* peer its tag.
C27_Witness ==
  /\ lastOp.op = "RejoinChannel" /\ lastOp.ret = "OK"
  /\ lastOp.list = <<[id |-> 2, ok |-> FALSE], [id |-> 1, ok |-> TRUE]>>
  /\ lastOp.val = <<2, 1>>
  /\ lastOp.peers = {1}

\* C28: once the minute of a Rejoin cycle is over, the cycle does nothing but
\* return: it takes no further peer from the discovery stream, and it adds
\* no protection tag.
C28_ReturnsAtTimeout ==
  [][(lastOp'.expired /\ lastOp' # lastOp) =>
       /\ lastOp'.op \in {"RejoinTimeout", "RejoinChannel"}
       /\ protected' = protected]_vars

\* C29: end to end, with the overlay taken to hand a publication to every
\* subscription of the topic, the sender's included. Receiver: a message of
\* peer 1 that reached the subscription of a joined channel is in time
\* yielded by Messages(), once, with sender 1, that channel and that text,
\* unless the channel is left meanwhile. Sender: Messages() never yields a
\* message whose sender is the local node.
C29_EndToEnd ==
  /\ \A k \in 1..MaxMsgs, s \in 1..MaxSubs :
       (/\ s <= Len(subscr)
        /\ ~subscr[s].cancelled
        /\ \E i \in 1..Len(subscr[s].ch) :
             subscr[s].ch[i] = [from |-> 1, data |-> k])
       ~> (/\ s <= Len(subscr)
           /\ \/ subscr[s].cancelled
              \/ /\ Cardinality({i \in 1..Len(out) : out[i].Text = k}) = 1
                 /\ \E i \in 1..Len(out) :
                      out[i] = [Sender |-> 1, Channel |-> subscr[s].topic,
                                Text |-> k])
  /\ [](\A i \in 1..Len(out) :
          /\ out[i].Sender # Self
          /\ Cardinality({j \in 1..Len(out) : out[j].Text = out[i].Text}) = 1)

\* The consumer received the message of peer 1 on a channel on which the
\* node had posted before; the pump of the channel had discarded the node's
\* own publication.
C29_Witness ==
  /\ lastOp.op = "Emit" /\ lastOp.ret = "OK"
  /\ \E s \in 1..Len(pumps) :
       /\ subscr[s].topic = lastOp.d
       /\ pumps[s].skipped = {1}
       /\ out = <<[Sender |-> 1, Channel |-> lastOp.d, Text |-> 2]>>

\* C30: Post on a joined channel returns nil with the publication left to a
\* goroutine of its own: it makes no overlay call itself, under the lock or
\* otherwise, and what it leaves is one more pending publication, also when
\* earlier ones are still pending; a Publish that fails is logged and changes
\* nothing but the pending publications.
C30_PostDoesNotWait ==
  [][/\ (/\ lastOp'.op = "Post"
         /\ PostCase(lastOp'.d) = "channel"
         /\ lastOp'.d \in DOMAIN topics) =>
          /\ lastOp'.ret = "OK"
          /\ lastOp'.calls = {} /\ lastOp'.held = {}
          /\ lastOp'.spawned = {"publish"}
          /\ \E p \in pubs' \ pubs :
               /\ pubs' = pubs \cup {p}
               /\ p.d = lastOp'.d /\ p.h = topics[p.d]
          /\ subscr' = subscr /\ topics' = topics /\ subs' = subs
     /\ (lastOp'.op = "Publish" /\ lastOp'.ret = "PublishFailed") =>
          /\ "Println" \in lastOp'.calls
          /\ \E p \in pubs : pubs' = pubs \ {p}
          /\ subscr' = subscr /\ out' = out /\ topics' = topics /\ subs' = subs
    ]_vars

\* Post returned nil while the publication of an earlier Post had not
\* completed.
C30_Witness ==
  /\ lastOp.op = "Post" /\ lastOp.ret = "OK"
  /\ Cardinality(pubs) = 2
  /\ \A p \in pubs : p.d = lastOp.d

C32_FailRunsCleanups ==
  [][/\ lastOp'.op = "Fail" =>
          IF lastOp'.failed = {"nil"}
          THEN lastOp'.ret = "nil" /\ lastOp'.val = <<>>
          ELSE /\ lastOp'.ret = "Wrap(err)"
               /\ lastOp'.val =
                    [i \in 1..Len(lastOp.called) |->
                       lastOp.called[Len(lastOp.called) + 1 - i]]
     /\ lastOp'.op = "RunCleanup" =>
          /\ lastOp'.val =
               [i \in 1..Len(lastOp.called) |->
                  lastOp.called[Len(lastOp.called) + 1 - i]]
          /\ lastOp'.list = <<>>]_vars

\* C33: n.topics and n.subs have the same keys whenever no operation is under
\* way; a descriptor becomes joined only by a JoinChannel for it that returns
\* nil and stops being joined only by a LeaveChannel for it; after a
\* JoinChannel that returned nil it is joined, and after a LeaveChannel on a
\* joined descriptor it is not.
C33_SameKeys ==
  /\ [](DOMAIN topics = DOMAIN subs)
  /\ [][/\ \A d \in Descriptors :
             /\ (~IsJoined(d) /\ d \in DOMAIN subs') =>
                  (lastOp'.op = "JoinChannel" /\ lastOp'.d = d /\
                   lastOp'.ret = "OK")
             /\ (IsJoined(d) /\ d \notin DOMAIN subs') =>
                  (lastOp'.op = "LeaveChannel" /\ lastOp'.d = d)
        /\ (lastOp'.op = "JoinChannel" /\ lastOp'.ret = "OK") =>
             lastOp'.d \in DOMAIN subs'
        /\ (lastOp'.op = "LeaveChannel" /\ IsJoined(lastOp'.d)) =>
             lastOp'.d \notin DOMAIN subs']_vars

\* A LeaveChannel whose Close failed took the descriptor out of both maps
\* while the other channel is in both.
C33_Witness ==
  /\ lastOp.op = "LeaveChannel" /\ lastOp.ret = "LeaveFailed"
  /\ lastOp.d \notin DOMAIN topics \cup DOMAIN subs
  /\ DOMAIN topics # {}
  /\ DOMAIN topics = DOMAIN subs

\* C34: after a JoinChannel(d) whose Subscribe failed, every open topic
\* handle of d is the one recorded in n.topics.
C34_NoOrphanHandle ==
  (lastOp.op = "JoinChannel" /\ "Subscribe" \in lastOp.failed) =>
    \A h \in 1..Len(handles) :
      (handles[h].d = lastOp.d /\ handles[h].open) =>
        (lastOp.d \in DOMAIN topics /\ topics[lastOp.d] = h)

\* C35: when LeaveChannel(d) has returned from a joined d and no Rejoin cycle
\* for d is running, no peer has the protection tag d.
C35_NoTagAfterLeave ==
  (/\ lastOp.op = "LeaveChannel"
   /\ lastOp.ret \in {"OK", "LeaveFailed"}
   /\ \A t \in Running : ~(t.kind = "rejoin" /\ t.d = lastOp.d)) =>
    protected[lastOp.d] = {}

\* C36: a Rejoin cycle adds the protection tag d only while d has a
\* membership record: every step of a cycle that tags a peer for d is taken
\* in a state where d is joined.
C36_TagOnlyWhileJoined ==
  [][(lastOp'.op = "RejoinPeer" /\ lastOp'.ret = "Protected") =>
       IsJoined(lastOp'.d)]_vars

\* C37: topic.Publish is never called on a handle that LeaveChannel has
\* closed: every step of a goroutine of Post that calls Publish is taken
\* while its handle is open.
C37_NoPublishOnClosed ==
  [][lastOp'.op = "Publish" =>
       \A p \in pubs \ pubs' : handles[p.h].open]_vars

\* C38: once LeaveChannel(d) has cancelled a subscription, no message read
\* from it reaches Messages(): every send of a pump that completes belongs
\* to a subscription that is not cancelled.
C38_NoEmitAfterLeave ==
  [][lastOp'.op = "Emit" =>
       \A s \in 1..Len(pumps) :
          (pumps[s].pc = "send" /\ pumps'[s].pc = "next") =>
            ~subscr[s].cancelled]_vars

UpperToLower ==
  "A" :> "a" @@ "B" :> "b" @@ "C" :> "c" @@ "D" :> "d" @@ "E" :> "e" @@
  "F" :> "f" @@ "G" :> "g" @@ "H" :> "h" @@ "I" :> "i" @@ "J" :> "j" @@
  "K" :> "k" @@ "L" :> "l" @@ "M" :> "m" @@ "N" :> "n" @@ "O" :> "o" @@
  "P" :> "p" @@ "Q" :> "q" @@ "R" :> "r" @@ "S" :> "s" @@ "T" :> "t" @@
  "U" :> "u" @@ "V" :> "v" @@ "W" :> "w" @@ "X" :> "x" @@ "Y" :> "y" @@
  "Z" :> "z"
ToLower(s) ==
  [i \in 1..Len(s) |-> IF s[i] \in DOMAIN UpperToLower THEN UpperToLower[s[i]]
                       ELSE s[i]]

\* strings.TrimPrefix
TrimPrefix(s, p) == IF HasPrefix(s, p) THEN From(s, Len(p)) ELSE s

\* The map cmds of HandleCommand: the callback of each key ("idCmd" and
\* "helpCmd" are the two function literals, "nil" the Callback of "quit").
cmds ==
  <<"j","o","i","n">> :> "joinCmd" @@
  <<"l","e","a","v","e">> :> "leaveCmd" @@
  <<"c","o","n","n","e","c","t">> :> "connectCmd" @@
  <<"r","e","j","o","i","n">> :> "rejoinCmd" @@
  <<"a","n","n","o","u","n","c","e">> :> "rejoinCmd" @@
  <<"m","s","g">> :> "msgCmd" @@
  <<"i","d">> :> "idCmd" @@
  <<"p","e","e","r","s">> :> "peersCmd" @@
  <<"s","t","a","t">> :> "statCmd" @@
  <<"p","i","n","g">> :> "pingCmd" @@
  <<"l","i","s","t","e","n">> :> "listenCmd" @@
  <<"q","u","i","t">> :> "nil" @@
  <<"h","e","l","p">> :> "helpCmd"

\* The first word of the lines the user types, and the words after it.
CommandWords ==
  {<<"/","j","o","i","n">>,
   <<"/","l","e","a","v","e">>,
   <<"/","c","o","n","n","e","c","t">>,
   <<"/","r","e","j","o","i","n">>,
   <<"/","a","n","n","o","u","n","c","e">>,
   <<"/","m","s","g">>,
   <<"/","i","d">>,
   <<"/","p","e","e","r","s">>,
   <<"/","s","t","a","t">>,
   <<"/","p","i","n","g">>,
   <<"/","l","i","s","t","e","n">>,
   <<"/","q","u","i","t">>,
   <<"/","h","e","l","p">>,
   <<"a","n","n","o","u","n","c","e">>,
   <<"/","A","N","N","O","U","N","C","E">>,
   <<"/","Q","u","i","t">>,
   <<"/","/","q","u","i","t">>,
   <<"/","f","o","o">>,
   <<>>}
CommandArgs == {<<"#","a">>, <<"a">>}
CommandArgLists ==
  {<<>>} \cup {<<a>> : a \in CommandArgs} \cup {<<a, <<"a">>>> : a \in CommandArgs}
\* strings.Split(line, " ") of these lines
CommandLines == {<<w>> \o args : w \in CommandWords, args \in CommandArgLists}

\* The name the model has for a full descriptor.
DescrName(s) == CHOOSE d \in Descriptors : Str(d) = s

\* A call of the node with no descriptor.
NodeCall(name) == [call |-> {name}, d |-> NoDescr, go |-> FALSE]
\* A callback that returns without a call of the node.
NoCall == [call |-> {}, d |-> NoDescr, go |-> FALSE]

\* The call of the node callback cb makes for commandParts: its name, the
\* descriptor it is made with, and whether a goroutine makes it. Of msgCmd
\* the node.ID() for the echo of a successful Post is left out. None of
\* CommandArgs is a peer ID (peer.Decode fails) or a multiaddress of a peer
\* (multiaddr.NewMultiaddr fails).
CommandCalls(cb, commandParts) ==
  LET n == Len(commandParts)
      e == ExpandDescriptor(commandParts[2])
      ofDescr(name, go) ==
        IF e.ok THEN [call |-> {name}, d |-> DescrName(e.val), go |-> go]
        ELSE NoCall
  IN
  CASE cb = "joinCmd" -> IF n # 2 THEN NoCall ELSE ofDescr("JoinChannel", FALSE)
    [] cb = "leaveCmd" -> IF n # 2 THEN NoCall ELSE ofDescr("LeaveChannel", FALSE)
    [] cb = "connectCmd" -> IF n # 2 THEN NoCall ELSE NodeCall("ConnectStr")
    [] cb = "rejoinCmd" ->
         IF n = 1 THEN [call |-> {"RejoinAll"}, d |-> NoDescr, go |-> TRUE]
         ELSE IF n = 2 THEN ofDescr("RejoinChannel", TRUE)
         ELSE NoCall
    [] cb = "announceCmd" ->
         IF n = 1 THEN [call |-> {"AnnounceAll"}, d |-> NoDescr, go |-> TRUE]
         ELSE IF n = 2 THEN ofDescr("AnnounceChannel", TRUE)
         ELSE NoCall
    [] cb = "msgCmd" -> IF n < 3 THEN NoCall ELSE ofDescr("Post", FALSE)
    [] cb = "idCmd" -> NodeCall("ID")
    [] cb = "peersCmd" -> NodeCall("Peers")
    [] cb = "listenCmd" -> NodeCall("Addrs")
    [] cb = "statCmd" ->
         IF n < 2 \/ ~e.ok THEN NoCall
         ELSE IF HasPrefix(e.val, ChanPrefix)
           THEN [call |-> {"IsJoined", "ConnectedMembers"},
                 d |-> DescrName(e.val), go |-> FALSE]
         ELSE NoCall
    [] cb = "pingCmd" -> NoCall
    [] cb = "helpCmd" -> NoCall

\* HandleCommand from "parts := strings.Split(line, " ")" on: what it
\* returns, what it tells the user when it finds no command, and the call of
\* the node its callback makes.
Dispatch(parts) ==
  LET key == ToLower(TrimPrefix(parts[1], <<"/">>)) IN
  IF key = <<"q","u","i","t">>
    THEN [key |-> key, ret |-> "ErrInterrupt", msg |-> {}, does |-> NoCall]
  ELSE IF key \notin DOMAIN cmds
    THEN [key |-> key, ret |-> "nil", msg |-> {"Unknown command"}, does |-> NoCall]
  ELSE [key |-> key, ret |-> "nil", msg |-> {},
        does |-> CommandCalls(cmds[key], parts)]

\* The calls that change the state of the node; the others read it, or act
\* on the network.
StateCalls == {"JoinChannel", "LeaveChannel", "Post", "RejoinAll", "RejoinChannel"}

\* HandleCommand has reached a call of StateCalls that has not been made yet.
Calling == lastOp.op = "HandleCommand" /\ lastOp.calls \cap StateCalls # {}

\* The bounds of the model leave room for the call.
Room(does) ==
  /\ does.call \cap {"RejoinAll", "RejoinChannel"} # {} =>
       BagCardinality(tasks) < MaxTasks
  /\ "Post" \in does.call => msgSeq < MaxMsgs
  /\ "JoinChannel" \in does.call =>
       (Len(handles) < MaxSubs /\ Len(subscr) < MaxSubs)

\* HandleCommand(ui, node, line) up to the call of the node. Of the step:
\* list is parts, val the key, calls the call, d its descriptor, spawned the
\* goroutine of the callback, failed what the user is told.
HandleCommand(parts) ==
  /\ ~node.crashed
  /\ ~Calling
  /\ LET r == Dispatch(parts) IN
     /\ Room(r.does)
     /\ lastOp' = [Op("HandleCommand", r.does.d, r.ret)
                     EXCEPT !.list = parts, !.val = r.key,
                            !.calls = r.does.call,
                            !.spawned = IF r.does.go THEN {"goroutine"} ELSE {},
                            !.failed = r.msg]
  /\ UNCHANGED <<topics, subs, handles, subscr, pumps, out, pubs, msgSeq,
                 protected, tasks, rejoined, node>>

\* The call HandleCommand has reached.
CommandJoin ==
  /\ Calling /\ "JoinChannel" \in lastOp.calls
  /\ \E joinOk, subOk \in BOOLEAN : JoinChannel(lastOp.d, joinOk, subOk)
CommandLeave ==
  /\ Calling /\ "LeaveChannel" \in lastOp.calls
  /\ \E closeOk \in BOOLEAN : LeaveChannel(lastOp.d, {}, closeOk)
CommandPost ==
  /\ Calling /\ "Post" \in lastOp.calls
  /\ Post(lastOp.d)
CommandRejoinAll ==
  /\ Calling /\ "RejoinAll" \in lastOp.calls
  /\ BeginAll("rejoin")
CommandRejoinChannel ==
  /\ Calling /\ "RejoinChannel" \in lastOp.calls
  /\ RejoinDemand(lastOp.d)

\* The user's commands on a node: each line is handled, then the call its
\* callback makes is made. The goroutines the calls start stay where they
\* are.
NextCommands ==
  \/ \E parts \in CommandLines : HandleCommand(parts)
  \/ CommandJoin
  \/ CommandLeave
  \/ CommandPost
  \/ CommandRejoinAll
  \/ CommandRejoinChannel
SpecCommands == Init /\ [][NextCommands]_vars

\* C40: '/announce' runs no Rejoin: the call HandleCommand makes for the key
\* "announce" is AnnounceAll when the line has no argument and
\* AnnounceChannel of the expansion when it has one descriptor.
C40_AnnounceAnnounces ==
  (lastOp.op = "HandleCommand" /\ lastOp.val = <<"a","n","n","o","u","n","c","e">>) =>
    /\ Len(lastOp.list) = 1 => lastOp.calls = {"AnnounceAll"}
    /\ (Len(lastOp.list) = 2 /\ ExpandDescriptor(lastOp.list[2]).ok) =>
         lastOp.calls = {"AnnounceChannel"}
    /\ lastOp.calls \cap {"RejoinAll", "RejoinChannel"} = {}

====
